---- MODULE Spec2Model ----
(***************************************************************************)
(* npc_radiomics/cv_grid_search.py: plot_performance_vs_hyperparams and    *)
(* the __main__ block, statement by statement.                             *)
(*                                                                         *)
(* Hyperparameter values are kept in hundredths (alpha 0.02 is 2, l1_ratio *)
(* 1.0 is 100).  A score is a fraction <<num, den>>; <<0, 0>> is NaN.      *)
(* Positions of samples are 1..n (numpy's 0..n-1 shifted by one); row      *)
(* labels of tables are pandas' 0-based labels.                            *)
(***************************************************************************)
EXTENDS Integers, Sequences, FiniteSets, TLC

\* ---------------------------------------------------------------- bounds
NSamples == 4        \* sample identifiers are 1..NSamples
MaxSplit == 2        \* a caller passes n_split in 2..MaxSplit, or omits it
MaxFold == 2         \* a caller passes n_fold in 0..MaxFold, or omits it

\* ------------------------------------------------------ program constants
DEFAULT_N_SPLIT == 7
DEFAULT_N_FOLD == 15
N_JOBS == 5

None == [kind |-> "None"]

Required == {"clf", "param_grid", "features", "targets"}
Optional == {"n_split", "n_fold"}

\* ------------------------------------------------------------- arithmetic
RECURSIVE GCD(_, _)
GCD(a, b) == IF b = 0 THEN a ELSE GCD(b, a % b)

NaN == <<0, 0>>
IsNaN(q) == q[2] = 0

Reduce(q) ==
    IF q[2] = 0 THEN NaN
    ELSE LET g == GCD(q[1], q[2]) IN <<q[1] \div g, q[2] \div g>>

AddFrac(p, q) ==
    IF IsNaN(p) \/ IsNaN(q) THEN NaN
    ELSE Reduce(<<p[1] * q[2] + q[1] * p[2], p[2] * q[2]>>)

RECURSIVE SumFrac(_)
SumFrac(s) == IF s = <<>> THEN <<0, 1>> ELSE AddFrac(Head(s), SumFrac(Tail(s)))

\* numpy.mean over the per-split scores of one candidate
MeanFrac(s) ==
    LET t == SumFrac(s) IN
    IF IsNaN(t) THEN NaN ELSE Reduce(<<t[1], t[2] * Len(s)>>)

InUnitInterval(q) == ~IsNaN(q) /\ 0 <= q[1] /\ q[1] <= q[2]

Range(s) == {s[j] : j \in DOMAIN s}

\* ------------------------------------------------------- the caller's data
\* Feature table: rows are features, columns are sample identifiers.
Features == [index |-> <<"f1", "f2">>, columns |-> [j \in 1..NSamples |-> j]]

\* Target table: rows are sample identifiers, one column of binary labels.
\* A table that lacks the last sample's row has mismatched identifiers.
TargetTables ==
    {[columns |-> <<"label">>, label |-> l] :
        l \in [1..NSamples -> {0, 1}] \cup [1..(NSamples - 1) -> {0, 1}]}

\* pipeline.Pipeline([('standardization', StandardScaler()),
\*                    ('classification', 'passthrough')])
Pipeline ==
    [kind |-> "Pipeline",
     steps |-> <<"standardization", "classification">>,
     classification |-> "passthrough",
     fitted |-> FALSE]

ElasticNet == [kind |-> "ElasticNet", tol |-> "1e-4", max_iter |-> 5500]

\* A hyperparameter grid: parameter name -> list of candidates.
ParamGrid(alphas, l1_ratios) ==
    [kind |-> "grid",
     classification |-> <<ElasticNet>>,
     classification__alpha |-> alphas,
     classification__l1_ratio |-> l1_ratios]

\* The grids a caller passes here: non-empty, one or two combinations.
Grids ==
    {ParamGrid(<<2>>, <<0>>), ParamGrid(<<2, 10>>, <<0>>), ParamGrid(<<2>>, <<0, 100>>)}

\* param_grid_dict of __main__: one entry, "Elastic Net", holding the grid.
ParamGridDict ==
    [kind |-> "dict of grids",
     names |-> <<"Elastic Net">>,
     grid |-> ParamGrid(<<2, 4, 6, 8, 10>>, <<0, 20, 40, 60, 80, 100>>)]

\* ParameterGrid(param_grid): the Cartesian product, keys sorted, the last
\* key varying fastest.
Candidates(g) ==
    LET na == Len(g.classification__alpha)
        nl == Len(g.classification__l1_ratio)
    IN [j \in 1..(Len(g.classification) * na * nl) |->
          [classification__alpha |-> g.classification__alpha[(((j - 1) \div nl) % na) + 1],
           classification__l1_ratio |-> g.classification__l1_ratio[((j - 1) % nl) + 1]]]

NCombos(g) ==
    Len(g.classification) * Len(g.classification__alpha) * Len(g.classification__l1_ratio)

\* ------------------------------------------------- names bound at module level
\* What lines 1-6 and the def bind: the names of sklearn.__all__ and of
\* sklearn.model_selection.__all__ (the ones used here), np, plt, MNTSLogger,
\* pd and the function itself.  There is no import of seaborn and no
\* assignment to df_curves anywhere in the file.
GlobalNames ==
    {"pipeline", "preprocessing", "linear_model", "StratifiedKFold", "GridSearchCV",
     "np", "plt", "MNTSLogger", "pd", "plot_performance_vs_hyperparams"}

\* Names assigned in the function body (its locals) and its parameters.
LocalNames ==
    {"clf", "param_grid", "features", "targets", "n_split", "n_fold",
     "splitter", "logger", "df_cvres", "i", "split", "grid", "X", "cvres", "fig", "ax"}

\* Python's name resolution inside the function: locals, then globals.
NameBound(name) == name \in LocalNames \cup GlobalNames

\* ---------------------------------------------------------- StratifiedKFold
Classes(y) == Range(y)
Count(y, c) == Cardinality({j \in DOMAIN y : y[j] = c})
FirstIdx(y, c) == CHOOSE j \in DOMAIN y : y[j] = c /\ \A h \in 1..(j - 1) : y[h] # c

\* y_order = np.sort(y_encoded): class c (encoded by first appearance) fills
\* the 0-based places ClassStart .. ClassStart + Count - 1.
RECURSIVE SumCount(_, _)
SumCount(y, cs) ==
    IF cs = {} THEN 0
    ELSE LET c == CHOOSE x \in cs : TRUE IN Count(y, c) + SumCount(y, cs \ {c})

ClassStart(y, c) == SumCount(y, {d \in Classes(y) : FirstIdx(y, d) < FirstIdx(y, c)})

\* allocation[i][c] = bincount(y_order[i::n_splits])[c], fold i in 0..k-1
Allocation(y, k, i, c) ==
    Cardinality({p \in ClassStart(y, c)..(ClassStart(y, c) + Count(y, c) - 1) : p % k = i})

\* _make_test_folds with shuffle=True and random_state=None: within each
\* class the fold numbers are shuffled, so any assignment with the allotted
\* number of members of each class in each fold may come out.
TestFolds(y, k) ==
    {f \in [DOMAIN y -> 0..(k - 1)] :
        \A c \in Classes(y) : \A i \in 0..(k - 1) :
            Cardinality({j \in DOMAIN y : y[j] = c /\ f[j] = i}) = Allocation(y, k, i, c)}

\* What split() yields: for each fold, the (train, test) positions.
Splits(f, k) ==
    [i \in 1..k |-> [train |-> {j \in DOMAIN f : f[j] # i - 1},
                     test |-> {j \in DOMAIN f : f[j] = i - 1}]]

\* "Cannot have number of splits greater than the number of samples" and
\* "n_splits cannot be greater than the number of members in each class".
SplitRaises(y, k) == k > Len(y) \/ \A c \in Classes(y) : k > Count(y, c)

\* ------------------------------------------------------------ roc_auc scoring
NPos(y, test) == Cardinality({j \in test : \A h \in DOMAIN y : y[h] <= y[j]})
NNeg(y, test) == Cardinality(test) - NPos(y, test)

\* roc_auc_score raises "Only one class present in y_true".
OneClass(y, test) == Cardinality({y[j] : j \in test}) # 2

\* AUC = (concordant pairs + ties / 2) / (npos * nneg): as the estimator's
\* decision values vary it takes every value k / (2 * npos * nneg).
AucValues(y, test) ==
    {Reduce(<<k, 2 * NPos(y, test) * NNeg(y, test)>>) :
        k \in 0..(2 * NPos(y, test) * NNeg(y, test))}

\* The per-split test scores one candidate can get on the folds cv.  A split
\* whose scoring raised scores NaN (error_score=nan): its only value.
SplitScores(y, cv) ==
    {s \in [DOMAIN cv -> UNION {AucValues(y, cv[i].test) : i \in DOMAIN cv}] :
        \A i \in DOMAIN cv : s[i] \in AucValues(y, cv[i].test)}

\* mean_test_score of one candidate: the mean of its per-split test scores.
MeanTestScores(y, cv) == {MeanFrac(s) : s \in SplitScores(y, cv)}

\* ---------------------------------------------------------------- tables
CvColumns == <<"param_classification__alpha", "param_classification__l1_ratio", "mean_test_score">>

\* pd.DataFrame(grid.cv_results_): one row per candidate, labels 0..n-1.
\* (The timing, rank, std and per-split columns are not carried.)
DataFrame(cv_results) ==
    [columns |-> CvColumns,
     index |-> [j \in DOMAIN cv_results.params |-> j - 1],
     rows |-> [j \in DOMAIN cv_results.params |->
                 [param_classification__alpha |-> cv_results.params[j].classification__alpha,
                  param_classification__l1_ratio |-> cv_results.params[j].classification__l1_ratio,
                  mean_test_score |-> cv_results.mean_test_score[j]]]]

RECURSIVE ConcatIndex(_)
ConcatIndex(ts) == IF ts = <<>> THEN <<>> ELSE Head(ts).index \o ConcatIndex(Tail(ts))

RECURSIVE ConcatRows(_)
ConcatRows(ts) == IF ts = <<>> THEN <<>> ELSE Head(ts).rows \o ConcatRows(Tail(ts))

\* pd.concat(objs): rows one table after the other, each row keeping its
\* label (ignore_index is False), the columns of the tables.
PdConcat(ts) ==
    [columns |-> Head(ts).columns, index |-> ConcatIndex(ts), rows |-> ConcatRows(ts)]

\* reset_index() whose result is dropped: the table stays as concat left it.
ResetIndexNotApplied(t) == t

\* DataFrame.reset_index() with drop=False: the old labels become a new
\* first column "index", the new labels are 0..n-1.
ResetIndexOf(t) ==
    [columns |-> <<"index">> \o t.columns,
     index |-> [j \in DOMAIN t.rows |-> j - 1],
     rows |-> [j \in DOMAIN t.rows |-> ("index" :> t.index[j]) @@ t.rows[j]]]

\* ------------------------------------------------------------------ state
VARIABLES
    entry,       \* "script": python cv_grid_search.py; "caller": an importer's call
    pc,          \* the statement about to run, "returned" or "raised"
    exc,         \* the exception that ended the run, "none" otherwise
    call,        \* the call's argument list: which parameters it supplies
    clf,         \* the estimator template object
    param_grid,  \* the hyperparameter grid object
    features,    \* the feature table object
    targets,     \* the target table object
    n_split,     \* parameter n_split once bound (0 before)
    n_fold,      \* parameter n_fold once bound (0 before)
    splitter,    \* line 14
    i,           \* the loop variable of line 17 (-1 before the first iteration)
    split,       \* line 18: the generator, not yet consumed
    grid,        \* line 19
    cvres,       \* line 22
    df_cvres,    \* line 16: the list of collected tables
    frame,       \* df_cvres once lines 25, 26 rebind it to a table
    fig,         \* line 27 and the charts drawn on its two axes
    folds,       \* history: the folds each finished grid search was run on
    tables       \* history: the result table of each finished grid search

vars ==
    <<entry, pc, exc, call, clf, param_grid, features, targets, n_split, n_fold,
      splitter, i, split, grid, cvres, df_cvres, frame, fig, folds, tables>>

inputs == <<clf, param_grid, features, targets>>
locals == <<splitter, i, split, grid, cvres, df_cvres, frame, fig>>
history == <<folds, tables>>

\* An importer's call: the four required arguments, n_split and n_fold
\* passed or left to their defaults.
CallerCalls ==
    {[supplied |-> Required \cup opt, n_split |-> ns, n_fold |-> nf] :
        opt \in SUBSET Optional, ns \in 2..MaxSplit, nf \in 0..MaxFold}

\* What nothing has been assigned to yet.
Unset ==
    /\ exc = "none"
    /\ n_split = 0 /\ n_fold = 0
    /\ splitter = None /\ i = -1 /\ split = None /\ grid = None /\ cvres = None
    /\ df_cvres = <<>> /\ frame = None /\ fig = None
    /\ folds = <<>> /\ tables = <<>>

InitScript ==
    /\ entry = "script" /\ pc = "main"
    /\ call = [supplied |-> {}, n_split |-> 0, n_fold |-> 0]
    /\ clf = None /\ param_grid = None /\ features = None /\ targets = None
    /\ Unset

InitCaller ==
    /\ entry = "caller" /\ pc = "call"
    /\ call \in {c \in CallerCalls :
                   /\ "n_split" \notin c.supplied => c.n_split = 2
                   /\ "n_fold" \notin c.supplied => c.n_fold = 0}
    /\ clf = Pipeline
    /\ param_grid \in Grids
    /\ features = Features
    /\ targets \in TargetTables
    /\ Unset

Init == InitScript \/ InitCaller

Raise(e) == pc' = "raised" /\ exc' = e

\* ------------------------------------------------------- lines 39-53: __main__
\* Builds clf and param_grid_dict and calls the function with these two
\* positional arguments.
Main ==
    /\ pc = "main"
    /\ clf' = Pipeline
    /\ param_grid' = ParamGridDict
    /\ call' = [supplied |-> {"clf", "param_grid"}, n_split |-> 0, n_fold |-> 0]
    /\ pc' = "call"
    /\ UNCHANGED <<entry, exc, features, targets, n_split, n_fold, locals, history>>

\* ------------------------------------- lines 8-13: binding the arguments
\* A required parameter without an argument is a TypeError, raised before
\* the body runs.
Call ==
    /\ pc = "call"
    /\ IF Required \subseteq call.supplied
       THEN /\ n_split' = (IF "n_split" \in call.supplied THEN call.n_split ELSE DEFAULT_N_SPLIT)
            /\ n_fold' = (IF "n_fold" \in call.supplied THEN call.n_fold ELSE DEFAULT_N_FOLD)
            /\ pc' = "splitter"
            /\ exc' = exc
       ELSE /\ Raise("TypeError")
            /\ UNCHANGED <<n_split, n_fold>>
    /\ UNCHANGED <<entry, call, inputs, locals, history>>

\* ------------------------------------------------------------ lines 14-16
\* (Line 15 gets a logger that nothing below uses; it is not carried.)
Prologue ==
    /\ pc = "splitter"
    /\ splitter' = [kind |-> "StratifiedKFold", n_splits |-> n_split,
                    shuffle |-> TRUE, random_state |-> "None"]
    /\ df_cvres' = <<>>
    /\ pc' = "for"
    /\ UNCHANGED <<entry, exc, call, inputs, n_split, n_fold, i, split, grid, cvres,
                   frame, fig, history>>

\* ------------------------------------------------- line 17: for i in range(n_fold)
For ==
    /\ pc = "for"
    /\ IF i + 1 < n_fold
       THEN i' = i + 1 /\ pc' = "split"
       ELSE i' = i /\ pc' = "concat"
    /\ UNCHANGED <<entry, exc, call, inputs, n_split, n_fold, splitter, split, grid, cvres,
                   df_cvres, frame, fig, history>>

\* targets.loc[features.columns]: a KeyError when a sample identifier has no
\* row in the target table.
LocRaises == \E j \in DOMAIN features.columns : features.columns[j] \notin DOMAIN targets.label

\* targets.loc[features.columns][targets.columns[0]]
Labels == [j \in DOMAIN features.columns |-> targets.label[features.columns[j]]]

\* ------------------------------------------------------------------ line 18
\* split() is a generator function: the call evaluates its arguments and
\* returns the generator; the folds are drawn when it is consumed.
Split ==
    /\ pc = "split"
    /\ IF LocRaises
       THEN Raise("KeyError") /\ split' = split
       ELSE /\ split' = [kind |-> "generator", splitter |-> splitter,
                         X |-> features.columns, y |-> Labels]
            /\ pc' = "grid" /\ exc' = exc
    /\ UNCHANGED <<entry, call, inputs, n_split, n_fold, splitter, i, grid, cvres,
                   df_cvres, frame, fig, history>>

\* --------------------------------------------------------------- lines 19-20
Grid ==
    /\ pc = "grid"
    /\ grid' = [kind |-> "GridSearchCV", estimator |-> clf, n_jobs |-> N_JOBS,
                param_grid |-> param_grid, scoring |-> "roc_auc", cv |-> split,
                cv_results_ |-> None]
    /\ pc' = "fit"
    /\ UNCHANGED <<entry, exc, call, inputs, n_split, n_fold, splitter, i, split, cvres,
                   df_cvres, frame, fig, history>>

\* ------------------------------------------------------------------ line 21
\* A search that fits the template itself instead of a clone of it.
TemplateFittedInPlace(est) == [est EXCEPT !.fitted = TRUE]

\* GridSearchCV.fit clones the estimator for every candidate and split and
\* for the refit: the template passed as clf is left as it was.
TemplateAfterFit(est) == est

\* A loop body that catches what the search raises and goes on with the
\* next repetition.
FitRaiseCaught(e) ==
    /\ pc' = "for" /\ exc' = exc
    /\ UNCHANGED <<clf, grid, folds>>

\* No try/except encloses lines 18-23: what the search raises leaves the
\* function, with nothing else assigned.
FitRaise(e) ==
    /\ Raise(e)
    /\ UNCHANGED <<clf, grid, folds>>

\* cv_results_ of a finished search: the candidates and the mean test score
\* of each (the per-split scores, times and ranks are not carried).
CvResults(means) ==
    [params |-> Candidates(param_grid),
     mean_test_score |-> means]

\* fit consumes the generator given as cv (the folds are drawn here), then
\* scores every candidate on every fold.  A test fold with one class makes
\* roc_auc_score raise: scikit-learn either lets that out of fit or scores
\* the split NaN (error_score), by its version.
Fit ==
    /\ pc = "fit"
    /\ LET y == split.y
           k == split.splitter.n_splits
       IN IF SplitRaises(y, k)
          THEN FitRaise("ValueError")
          ELSE \E f \in TestFolds(y, k) :
                 LET cv == Splits(f, k) IN
                 \E lets_out \in {b \in BOOLEAN : b => \E t \in DOMAIN cv : OneClass(y, cv[t].test)} :
                   IF lets_out
                   THEN FitRaise("ValueError")
                   ELSE \E means \in [1..NCombos(param_grid) -> MeanTestScores(y, cv)] :
                          /\ grid' = [grid EXCEPT !.cv_results_ = CvResults(means)]
                          /\ clf' = TemplateAfterFit(clf)
                          /\ folds' = Append(folds, cv)
                          /\ pc' = "cvres" /\ exc' = exc
    /\ UNCHANGED <<entry, call, param_grid, features, targets, n_split, n_fold, splitter, i,
                   split, cvres, df_cvres, frame, fig, tables>>

\* ------------------------------------------------------------------ line 22
CvRes ==
    /\ pc = "cvres"
    /\ cvres' = DataFrame(grid.cv_results_)
    /\ tables' = Append(tables, cvres')
    /\ pc' = "append"
    /\ UNCHANGED <<entry, exc, call, inputs, n_split, n_fold, splitter, i, split, grid,
                   df_cvres, frame, fig, folds>>

\* ------------------------------------------------------------------ line 23
\* df_curves.append(cvres): the name df_curves is looked up first.  Were it
\* bound, the table would go to that object; df_cvres is not touched.
AppendCvres ==
    /\ pc = "append"
    /\ IF NameBound("df_curves")
       THEN pc' = "for" /\ exc' = exc
       ELSE Raise("NameError")
    /\ UNCHANGED <<entry, call, inputs, n_split, n_fold, locals, history>>

\* ------------------------------------------------------------------ line 25
\* pd.concat raises "No objects to concatenate" on an empty list.
Concat ==
    /\ pc = "concat"
    /\ IF df_cvres = <<>>
       THEN Raise("ValueError") /\ frame' = frame
       ELSE /\ frame' = PdConcat(df_cvres)
            /\ pc' = "reset_index" /\ exc' = exc
    /\ UNCHANGED <<entry, call, inputs, n_split, n_fold, splitter, i, split, grid, cvres,
                   df_cvres, fig, history>>

\* ------------------------------------------------------------------ line 26
ResetIndex ==
    /\ pc = "reset_index"
    /\ frame' = ResetIndexOf(frame)
    /\ pc' = "subplots"
    /\ UNCHANGED <<entry, exc, call, inputs, n_split, n_fold, splitter, i, split, grid, cvres,
                   df_cvres, fig, history>>

\* ------------------------------------------------------------------ line 27
\* One figure with two axes; charts counts the line charts drawn on each.
Subplots ==
    /\ pc = "subplots"
    /\ fig' = [kind |-> "Figure", sharey |-> TRUE, charts |-> <<0, 0>>]
    /\ pc' = "lineplot0"
    /\ UNCHANGED <<entry, exc, call, inputs, n_split, n_fold, splitter, i, split, grid, cvres,
                   df_cvres, frame, history>>

\* ------------------------------------------------- lines 28-32 and 33-37
\* sns.lineplot(..., ax=ax[a]): the name sns is looked up first.  After the
\* second chart the function returns.
Lineplot(a) ==
    /\ pc = (IF a = 0 THEN "lineplot0" ELSE "lineplot1")
    /\ IF NameBound("sns")
       THEN /\ fig' = [fig EXCEPT !.charts[a + 1] = @ + 1]
            /\ pc' = (IF a = 0 THEN "lineplot1" ELSE "returned")
            /\ exc' = exc
       ELSE Raise("NameError") /\ fig' = fig
    /\ UNCHANGED <<entry, call, inputs, n_split, n_fold, splitter, i, split, grid, cvres,
                   df_cvres, frame, history>>

\* ------------------------------------------------------------ specifications
\* A run of the script or a call by an importer.  Line 23 raises in the
\* first iteration and line 25 raises on the empty list, so no run gets
\* past line 25.
Next ==
    \/ Main
    \/ Call
    \/ Prologue
    \/ For
    \/ Split
    \/ Grid
    \/ Fit
    \/ CvRes
    \/ AppendCvres
    \/ Concat

Spec == Init /\ [][Next]_vars

\* Lines 25-37 on their own, from a non-empty list of per-repetition tables
\* as line 22 builds them.
MeanScores == {<<0, 1>>, <<1, 2>>, <<1, 1>>}

RepetitionTables(g) ==
    {DataFrame([params |-> Candidates(g), mean_test_score |-> m]) :
        m \in [1..NCombos(g) -> MeanScores]}

InitAgg ==
    /\ entry = "caller" /\ pc = "concat" /\ exc = "none"
    /\ clf = Pipeline
    /\ param_grid \in Grids
    /\ features = Features
    /\ targets = [columns |-> <<"label">>, label |-> [j \in 1..NSamples |-> j % 2]]
    /\ n_split = 2
    /\ n_fold \in 1..MaxFold
    /\ call = [supplied |-> Required \cup Optional, n_split |-> n_split, n_fold |-> n_fold]
    /\ splitter = [kind |-> "StratifiedKFold", n_splits |-> n_split,
                   shuffle |-> TRUE, random_state |-> "None"]
    /\ i = n_fold - 1
    /\ split = None /\ grid = None
    /\ df_cvres \in [1..n_fold -> RepetitionTables(param_grid)]
    /\ cvres = df_cvres[n_fold]
    /\ frame = None /\ fig = None
    /\ folds = <<>> /\ tables = df_cvres

NextAgg ==
    \/ Concat
    \/ ResetIndex
    \/ Subplots
    \/ \E a \in {0, 1} : Lineplot(a)

SpecAgg == InitAgg /\ [][NextAgg]_vars

\* ------------------------------------------------------------------ claims
Ended == pc \in {"returned", "raised"}

\* n_split and n_fold as the call binds them.
CallSplit == IF "n_split" \in call.supplied THEN call.n_split ELSE DEFAULT_N_SPLIT
CallFold == IF "n_fold" \in call.supplied THEN call.n_fold ELSE DEFAULT_N_FOLD

\* An importer's call whose tables match, with two classes of at least
\* n_split members each, and at least one repetition asked for.
WellFormed ==
    /\ entry = "caller"
    /\ ~LocRaises
    /\ Cardinality(Classes(Labels)) = 2
    /\ \A c \in Classes(Labels) : Count(Labels, c) >= CallSplit
    /\ CallFold >= 1

FrameBuilt == pc \in {"subplots", "lineplot0", "lineplot1", "returned"} \/ (pc = "raised" /\ fig # None)

\* Rows of the list's tables before table r.
RECURSIVE RowsBefore(_, _)
RowsBefore(ts, r) == IF r <= 1 THEN 0 ELSE Len(ts[r - 1].rows) + RowsBefore(ts, r - 1)

TotalRows(ts) == RowsBefore(ts, Len(ts) + 1)

\* C1: once a well-formed call with n_fold >= 1 has ended, the aggregated
\* table exists and has n_fold x (number of grid combinations) rows.
C1_RowCount ==
    (WellFormed /\ Ended) =>
        (frame # None /\ Len(frame.rows) = CallFold * NCombos(param_grid))

\* C2: a well-formed call ends by returning, never by raising: every
\* repetition has run and each of the two axes holds its chart.
C2_ReturnsWithTwoCharts ==
    (WellFormed /\ Ended) =>
        /\ pc = "returned" /\ exc = "none"
        /\ Len(tables) = CallFold
        /\ fig # None /\ fig.charts = <<1, 1>>

\* C3: once a well-formed call has ended, the aggregated table holds, for
\* every repetition and every combination, a row whose mean test score
\* lies in [0, 1].
C3_ScoresInUnitInterval ==
    (WellFormed /\ Ended) =>
        /\ frame # None
        /\ \A r \in 1..CallFold : \A c \in 1..NCombos(param_grid) :
             LET j == (r - 1) * NCombos(param_grid) + c IN
             /\ j <= Len(frame.rows)
             /\ InUnitInterval(frame.rows[j].mean_test_score)

\* A stratified K-fold partition of the n samples into k folds: the test
\* sets are disjoint and cover every sample, each train set is the rest,
\* and the folds' shares of every class differ by at most one.
StratifiedPartition(cv, y, k) ==
    /\ Len(cv) = k
    /\ UNION {cv[t].test : t \in 1..k} = DOMAIN y
    /\ \A t, u \in 1..k : t # u => cv[t].test \cap cv[u].test = {}
    /\ \A t \in 1..k : cv[t].train = DOMAIN y \ cv[t].test
    /\ \A c \in Classes(y) : \A t, u \in 1..k :
         Cardinality({j \in cv[t].test : y[j] = c})
           <= Cardinality({j \in cv[u].test : y[j] = c}) + 1

\* C5: once a well-formed call has ended, each of its n_fold repetitions
\* has drawn a split of its own, a stratified K-fold partition of all samples.
C5_EveryRepetitionDrawsItsSplit ==
    (WellFormed /\ Ended) =>
        /\ Len(folds) = CallFold
        /\ \A r \in 1..Len(folds) : StratifiedPartition(folds[r], Labels, CallSplit)

\* C6: a run of the script ends having called the function once with all
\* four required inputs, so that the grid search has run.
C6_ScriptRunsTheSearch ==
    (entry = "script" /\ Ended) =>
        /\ Required \subseteq call.supplied
        /\ exc # "TypeError"
        /\ Len(folds) >= 1

C8_FailurePropagates ==
    [][ /\ (pc = "split" /\ pc' # "grid") \/ (pc = "fit" /\ pc' # "cvres") =>
            /\ pc' = "raised" /\ exc' \in {"KeyError", "ValueError"}
            /\ i' = i /\ df_cvres' = df_cvres /\ tables' = tables /\ folds' = folds
            /\ frame' = None /\ fig' = None
        /\ pc = "raised" => UNCHANGED vars ]_vars

\* The search of the first of two or more repetitions has raised.
C8_Witness ==
    /\ pc = "raised" /\ exc = "ValueError"
    /\ grid # None
    /\ i = 0 /\ n_fold >= 2

\* C9: every finished search's table is kept at its place in the collected
\* list (the last one may be waiting at line 23), search r runs in
\* iteration r only, and a search has at most 5 workers.
C9_ResultsKeptInOrder ==
    /\ grid # None => grid.n_jobs <= 5
    /\ Len(folds) <= i + 1
    /\ \A r \in 1..Len(tables) :
         \/ r <= Len(df_cvres) /\ df_cvres[r] = tables[r]
         \/ r = Len(tables) /\ pc = "append"

====
